---- MODULE Spec2Model ----
(***************************************************************************)
(* Model of the lead generation pipeline: the REST backend                 *)
(* (backend/api.py), the lead store (backend/database.py), the MCP stage   *)
(* tools (mcp_server/server.py) and the outreach service                   *)
(* (backend/outreach.py).                                                  *)
(*                                                                         *)
(* Five specifications share the module:                                   *)
(*   Spec        the API process: its handlers and the background workers  *)
(*               running execute_pipeline;                                 *)
(*   SpecLive    the API process with every worker thread scheduled        *)
(*               fairly;                                                   *)
(*   SpecShared  the API process and the MCP server on one lead store;     *)
(*   SpecOut     one OutreachService instance with its clock, its rate     *)
(*               limiter, its retries and its per-channel results;         *)
(*   SpecFleet   SpecOut with a new OutreachService instance constructed   *)
(*               for each run or tool call.                                *)
(*                                                                         *)
(* Granularity of Spec and SpecShared: execute_pipeline runs in a          *)
(* thread-pool thread and the MCP server is another process on the same    *)
(* SQLite file, so a worker                                                *)
(* and a tool call are sequences of steps; a step holds at most one write  *)
(* to the store (each Database method opens, commits and closes its own    *)
(* connection) or one group of adjacent pipeline_state writes.  The async  *)
(* HTTP handlers contain no await and are single steps.                    *)
(***************************************************************************)
EXTENDS Integers, Sequences, FiniteSets, TLC

\* ------------------------------------------------------------------ bounds
MaxRuns == 2
MaxLeads == 2
FewRuns == 1

MaxTime == 70
\* RATE_LIMIT_PER_MINUTE as configured for the model (the default is 10)
rate_limit == 2

\* ------------------------------------------------------- program constants
max_retries == 2
\* the length of the rate window, in seconds
Window == 60
\* the least time between two sends, in seconds
MinSpacing == 1

VARIABLES
    pipeline_state,   \* api.py: the process-wide dict running/current_stage/progress
    run,              \* the background tasks: one record per accepted POST /pipeline/run
    db,               \* the SQLite store: leads (status by id), enrichment, messages
    mcp,              \* the MCP tool call in progress, if any
    response,         \* the status code of the last HTTP response of the API (0: none yet)
    \* ---- SpecOut: one OutreachService instance ----
    now,              \* the clock read by time.time(), in seconds
    svc,              \* dry_run, last_send_time, send_count, send_window_start
    call,             \* the send_outreach call in progress; attempts and outcome
                      \* record, per channel, the attempts made and the latest one's
                      \* end, smtp the SMTP conversations opened
    sends,            \* the times of the latest sends (attempts that passed the rate limiter)
    slept             \* the time the latest _apply_rate_limit call spent in time.sleep

vars == <<pipeline_state, run, db, mcp, response, now, svc, call, sends, slept>>
sysVars == <<pipeline_state, run, db, mcp, response>>
outVars == <<now, svc, call, sends, slept>>

\* ------------------------------------------------------------- lead store
Leads == 1..MaxLeads
Runs == 1..MaxRuns

\* database.py: class LeadStatus; "NONE" stands for "no row with this id".
LeadStatus == {"NEW", "ENRICHED", "MESSAGED", "SENT", "FAILED"}

\* Database.init_db: empty tables; the AUTOINCREMENT sequence starts at 0.
init_db == [leads |-> [i \in Leads |-> "NONE"],
            enrichment |-> {},
            messages |-> {},
            seq |-> 0]

\* The lead dicts handed to insert_lead, as far as the status goes: a dict
\* may carry a "status" key with any status, or none ("absent").
LeadData == [status : {"absent"} \cup LeadStatus]

\* insert_lead writing the status found in the lead dict.
insert_lead_keeps_status(d, lead_data) ==
    [d EXCEPT !.leads[d.seq + 1] = IF lead_data.status = "absent" THEN "NEW"
                                   ELSE lead_data.status,
              !.seq = d.seq + 1]

\* Database.insert_lead: the status column is not in the INSERT, so the row
\* takes the column default 'NEW' whatever the dict holds; the id is the next
\* AUTOINCREMENT value.
insert_lead(d, lead_data) ==
    [d EXCEPT !.leads[d.seq + 1] = "NEW", !.seq = d.seq + 1]

\* for lead in leads: db.insert_lead(lead)
RECURSIVE insert_leads(_, _)
insert_leads(d, leads) ==
    IF leads = <<>> THEN d
    ELSE insert_leads(insert_lead(d, Head(leads)), Tail(leads))

\* Database.insert_enrichment: a row keyed by lead_id (no foreign-key check).
insert_enrichment(d, lead_id) ==
    [d EXCEPT !.enrichment = @ \cup {lead_id}]

\* Database.insert_message: a row keyed by lead_id.
insert_message(d, lead_id) ==
    [d EXCEPT !.messages = @ \cup {lead_id}]

\* Database.update_lead_status: UPDATE ... WHERE id = ?, whatever the stored
\* status is; it changes nothing when no row has the id.
update_lead_status(d, lead_id, status) ==
    IF d.leads[lead_id] = "NONE" THEN d
    ELSE [d EXCEPT !.leads[lead_id] = status]

\* The ids 1..n in descending order.
RECURSIVE Descending(_)
Descending(n) == IF n = 0 THEN <<>> ELSE <<n>> \o Descending(n - 1)

\* Database.get_leads_by_status: the rows with the status, newest first.
get_leads_by_status(d, status) ==
    SelectSeq(Descending(MaxLeads), LAMBDA i : d.leads[i] = status)

\* Database.clear_all_data: DELETE FROM every table; the AUTOINCREMENT
\* sequence is kept, so ids are not reused.
clear_all_data(d) ==
    [d EXCEPT !.leads = [i \in Leads |-> "NONE"],
              !.enrichment = {},
              !.messages = {}]

\* ------------------------------------------- outreach, as one atomic call
\* The per-channel result of a whole send, used where the timing of the
\* attempts does not matter (Spec).  smtp[k] and rnd[k] are the outcomes of
\* attempt k (retry_count = k): the SMTP delivery raising or not, and
\* random.random() < 0.95 or not.
Channels == {"email", "linkedin", "both", "other"}
AttemptOutcomes == [0..max_retries -> {"ok", "fail"}]

\* OutreachService.send_email: dry run returns success at once; otherwise a
\* failing attempt is retried while retry_count < max_retries.
RECURSIVE send_email(_, _, _)
send_email(dry_run, smtp, retry_count) ==
    IF dry_run THEN "success"
    ELSE IF smtp[retry_count] = "ok" THEN "success"
    ELSE IF retry_count < max_retries
         THEN send_email(dry_run, smtp, retry_count + 1)
         ELSE "failed"

\* OutreachService.send_linkedin_dm: always simulated, dry_run is not read;
\* a failing draw is retried while retry_count < max_retries.
RECURSIVE send_linkedin_dm(_, _)
send_linkedin_dm(rnd, retry_count) ==
    IF rnd[retry_count] = "ok" THEN "success"
    ELSE IF retry_count < max_retries
         THEN send_linkedin_dm(rnd, retry_count + 1)
         ELSE "failed"

\* OutreachService.send_outreach: one result per channel the argument
\* selects; a channel value other than email / linkedin / both selects none.
send_outreach(dry_run, channel, smtp, rnd) ==
    [c \in ((IF channel \in {"email", "both"} THEN {"email"} ELSE {})
            \cup (IF channel \in {"linkedin", "both"} THEN {"linkedin"} ELSE {}))
       |-> IF c = "email" THEN send_email(dry_run, smtp, 0)
           ELSE send_linkedin_dm(rnd, 0)]

\* Every result map send_outreach can return for a channel argument.
OutreachResults(channel) ==
    {send_outreach(dry_run, channel, smtp, rnd) :
        dry_run \in BOOLEAN, smtp \in AttemptOutcomes, rnd \in AttemptOutcomes}

\* any() in place of all(): one successful channel is enough.
any_success(results) == \E c \in DOMAIN results : results[c] = "success"

\* all(r['status'] == 'success' for r in results.values())
all_success(results) == \A c \in DOMAIN results : results[c] = "success"

\* ------------------------------------------------------------ API state
NoResults == [c \in {} |-> "success"]
\* lead_data: whether the request carried lead data (a non-empty dict).
NoRun == [pc |-> "none", lead |-> 0, results |-> NoResults, stopped |-> FALSE,
          lead_data |-> FALSE]

\* The program points of execute_pipeline at which a call into the store or
\* into a stage processor is pending, so that an exception can be raised.
FalliblePcs == {"intake", "stage2", "enrich", "set_enriched", "stage3",
                "generate", "set_messaged", "send", "set_final"}

\* A run that was accepted and has not finished.
Unfinished(r) == run[r].pc \notin {"none", "done"}
\* A run whose execute_pipeline has begun and has not returned.
Executing(r) == run[r].pc \notin {"none", "queued", "done"}

InitSys ==
    /\ pipeline_state = [running |-> FALSE, current_stage |-> "None", progress |-> 0]
    /\ run = [r \in Runs |-> NoRun]
    /\ db = init_db
    /\ mcp = [tool |-> "idle", leads |-> <<>>, phase |-> "record",
              results |-> NoResults]
    /\ response = 0

\* ---------------------------------------------------------- HTTP handlers
\* run_pipeline without the test of the running flag: every request is queued.
run_pipeline_unguarded(n) ==
    /\ \E r \in 1..n, lead_data \in BOOLEAN :
         /\ run[r].pc = "none"
         /\ \A q \in Runs : q < r => run[q].pc # "none"
         /\ run' = [run EXCEPT ![r].pc = "queued", ![r].lead_data = lead_data]
    /\ response' = 200
    /\ UNCHANGED <<pipeline_state, db, mcp, outVars>>

\* POST /pipeline/run: 409 when the flag is set; otherwise the task is queued
\* with BackgroundTasks and runs after the response; the flag is not set here.
run_pipeline(n) ==
    /\ IF pipeline_state["running"]
       THEN /\ response' = 409
            /\ UNCHANGED run
       ELSE /\ \E r \in 1..n, lead_data \in BOOLEAN :
                 /\ run[r].pc = "none"
                 /\ \A q \in Runs : q < r => run[q].pc # "none"
                 /\ run' = [run EXCEPT ![r].pc = "queued",
                                       ![r].lead_data = lead_data]
            /\ response' = 200
    /\ UNCHANGED <<pipeline_state, db, mcp, outVars>>

\* POST /pipeline/stop answering with an error when no run is flagged.
stop_pipeline_strict ==
    /\ IF pipeline_state["running"]
       THEN /\ pipeline_state' = [pipeline_state EXCEPT !["running"] = FALSE,
                                                       !["current_stage"] = "None"]
            /\ run' = [r \in Runs |->
                         IF Executing(r) THEN [run[r] EXCEPT !.stopped = TRUE]
                         ELSE run[r]]
            /\ response' = 200
       ELSE /\ response' = 400
            /\ UNCHANGED <<pipeline_state, run>>
    /\ UNCHANGED <<db, mcp, outVars>>

\* POST /pipeline/stop
stop_pipeline ==
    /\ pipeline_state' = [pipeline_state EXCEPT !["running"] = FALSE,
                                                !["current_stage"] = "None"]
    /\ run' = [r \in Runs |->
                 IF Executing(r) THEN [run[r] EXCEPT !.stopped = TRUE] ELSE run[r]]
    /\ response' = 200
    /\ UNCHANGED <<db, mcp, outVars>>

\* DELETE /leads
clear_leads ==
    /\ db' = clear_all_data(db)
    /\ pipeline_state' = [running |-> FALSE, current_stage |-> "None", progress |-> 0]
    /\ response' = 200
    /\ UNCHANGED <<run, mcp, outVars>>

\* GET /pipeline/status (GET /metrics reads the same three fields)
get_pipeline_status ==
    /\ response' = 200
    /\ UNCHANGED <<pipeline_state, run, db, mcp, outVars>>

\* ------------------------------------------------- execute_pipeline steps
SetPc(r, pc) == run' = [run EXCEPT ![r].pc = pc]

\* LeadGenerator.process_external_lead is called by execute_pipeline and is
\* defined nowhere in the repository's sources: it returns a lead, raises
\* ValueError (the case the caller handles) or raises something else.
ProcessOutcomes == {"lead", "ValueError", "error"}

\* lines 209-210
Start(r) ==
    /\ run[r].pc = "queued"
    /\ pipeline_state' = [pipeline_state EXCEPT !["running"] = TRUE,
                                                !["progress"] = 0]
    /\ SetPc(r, "stage1")
    /\ UNCHANGED <<db, mcp, response, outVars>>

\* lines 215-216
Stage1(r) ==
    /\ run[r].pc = "stage1"
    /\ pipeline_state' = [pipeline_state EXCEPT !["current_stage"] = "Processing leads",
                                                !["progress"] = 10]
    /\ SetPc(r, "intake")
    /\ UNCHANGED <<db, mcp, response, outVars>>

\* lines 220-236: with lead data, process and insert the lead; a ValueError,
\* or no lead data (None or an empty dict), clears the flag and returns.
Intake(r) ==
    /\ run[r].pc = "intake"
    /\ \E outcome \in ProcessOutcomes \ {"error"}, processed_lead \in LeadData :
         IF run[r].lead_data /\ outcome = "lead"
         THEN /\ db.seq < MaxLeads
              /\ db' = insert_lead(db, processed_lead)
              /\ run' = [run EXCEPT ![r].pc = "intake_done", ![r].lead = db.seq + 1,
                                    ![r].lead_data = FALSE]
              /\ UNCHANGED pipeline_state
         ELSE /\ pipeline_state' = [pipeline_state EXCEPT !["running"] = FALSE]
              /\ run' = [run EXCEPT ![r].pc = "finally", ![r].lead_data = FALSE]
              /\ UNCHANGED db
    /\ UNCHANGED <<mcp, response, outVars>>

\* Stage 1 adding its 25 points to the progress it finds.
IntakeDone_increment(r) ==
    /\ run[r].pc = "intake_done"
    /\ pipeline_state' = [pipeline_state EXCEPT !["progress"] = @ + 25]
    /\ SetPc(r, "stage2")
    /\ UNCHANGED <<db, mcp, response, outVars>>

\* line 238
IntakeDone(r) ==
    /\ run[r].pc = "intake_done"
    /\ pipeline_state' = [pipeline_state EXCEPT !["progress"] = 25]
    /\ SetPc(r, "stage2")
    /\ UNCHANGED <<db, mcp, response, outVars>>

\* lines 246-254, 261-264: the inserted lead is looked up among the NEW leads;
\* when it is not there the flag is cleared and the run returns.
Stage2(r) ==
    /\ run[r].pc = "stage2"
    /\ IF db.leads[run[r].lead] = "NEW"
       THEN /\ pipeline_state' = [pipeline_state EXCEPT
                                     !["current_stage"] = "Enriching lead"]
            /\ SetPc(r, "enrich")
       ELSE /\ pipeline_state' = [pipeline_state EXCEPT
                                     !["current_stage"] = "Enriching lead",
                                     !["running"] = FALSE]
            /\ SetPc(r, "finally")
    /\ UNCHANGED <<db, mcp, response, outVars>>

\* Stage 2 advancing the lead without storing its enrichment.
Enrich_skips_record(r) ==
    /\ run[r].pc = "enrich"
    /\ SetPc(r, "set_enriched")
    /\ UNCHANGED <<pipeline_state, db, mcp, response, outVars>>

\* lines 256-257
Enrich(r) ==
    /\ run[r].pc = "enrich"
    /\ db' = insert_enrichment(db, run[r].lead)
    /\ SetPc(r, "set_enriched")
    /\ UNCHANGED <<pipeline_state, mcp, response, outVars>>

\* Stage 2 marking every NEW lead of the store, as the enrich_leads tool does.
SetEnriched_all_new(r) ==
    /\ run[r].pc = "set_enriched"
    /\ db' = [db EXCEPT !.leads = [i \in Leads |->
                                     IF db.leads[i] = "NEW" \/ i = run[r].lead
                                     THEN "ENRICHED" ELSE db.leads[i]]]
    /\ SetPc(r, "p50")
    /\ UNCHANGED <<pipeline_state, mcp, response, outVars>>

\* line 258
SetEnriched(r) ==
    /\ run[r].pc = "set_enriched"
    /\ db' = update_lead_status(db, run[r].lead, "ENRICHED")
    /\ SetPc(r, "p50")
    /\ UNCHANGED <<pipeline_state, mcp, response, outVars>>

\* line 259
Progress50(r) ==
    /\ run[r].pc = "p50"
    /\ pipeline_state' = [pipeline_state EXCEPT !["progress"] = 50]
    /\ SetPc(r, "stage3")
    /\ UNCHANGED <<db, mcp, response, outVars>>

\* lines 268-270
Stage3(r) ==
    /\ run[r].pc = "stage3"
    /\ pipeline_state' = [pipeline_state EXCEPT !["current_stage"] = "Generating messages"]
    /\ SetPc(r, "generate")
    /\ UNCHANGED <<db, mcp, response, outVars>>

\* lines 273-279
Generate(r) ==
    /\ run[r].pc = "generate"
    /\ db' = insert_message(db, run[r].lead)
    /\ SetPc(r, "set_messaged")
    /\ UNCHANGED <<pipeline_state, mcp, response, outVars>>

\* line 281
SetMessaged(r) ==
    /\ run[r].pc = "set_messaged"
    /\ db' = update_lead_status(db, run[r].lead, "MESSAGED")
    /\ SetPc(r, "p75")
    /\ UNCHANGED <<pipeline_state, mcp, response, outVars>>

\* line 282
Progress75(r) ==
    /\ run[r].pc = "p75"
    /\ pipeline_state' = [pipeline_state EXCEPT !["progress"] = 75]
    /\ SetPc(r, "stage4")
    /\ UNCHANGED <<db, mcp, response, outVars>>

\* lines 287-289
Stage4(r) ==
    /\ run[r].pc = "stage4"
    /\ pipeline_state' = [pipeline_state EXCEPT !["current_stage"] = "Sending outreach"]
    /\ SetPc(r, "send")
    /\ UNCHANGED <<db, mcp, response, outVars>>

\* lines 292-305: a fresh OutreachService(dry_run) sends on the request's channel.
Send(r) ==
    /\ run[r].pc = "send"
    /\ \E channel \in Channels : \E results \in OutreachResults(channel) :
         run' = [run EXCEPT ![r].pc = "set_final", ![r].results = results]
    /\ UNCHANGED <<pipeline_state, db, mcp, response, outVars>>

\* lines 308-314
SetFinal(r) ==
    /\ run[r].pc = "set_final"
    /\ db' = update_lead_status(db, run[r].lead,
                IF all_success(run[r].results) THEN "SENT" ELSE "FAILED")
    /\ run' = [run EXCEPT ![r].pc = "complete", ![r].results = NoResults]
    /\ UNCHANGED <<pipeline_state, mcp, response, outVars>>

\* lines 316-317
Complete(r) ==
    /\ run[r].pc = "complete"
    /\ pipeline_state' = [pipeline_state EXCEPT !["progress"] = 100,
                                                !["current_stage"] = "Complete"]
    /\ SetPc(r, "finally")
    /\ UNCHANGED <<db, mcp, response, outVars>>

\* The exception handler marking the run's lead FAILED.
Raise_marks_failed(r) ==
    /\ run[r].pc \in FalliblePcs
    /\ SetPc(r, "except")
    /\ db' = IF run[r].lead = 0 THEN db
             ELSE update_lead_status(db, run[r].lead, "FAILED")
    /\ UNCHANGED <<pipeline_state, mcp, response, outVars>>

\* An exception leaves the try block: the store is unreachable or locked, a
\* processor cannot be constructed (no GROQ_API_KEY) or fails, or
\* process_external_lead raises something other than ValueError.
Raise(r) ==
    /\ run[r].pc \in FalliblePcs
    /\ SetPc(r, "except")
    /\ UNCHANGED <<pipeline_state, db, mcp, response, outVars>>

\* The handler starting the run over after an exception.
Except_retries(r) ==
    /\ run[r].pc = "except"
    /\ pipeline_state' = [pipeline_state EXCEPT !["current_stage"] = "Error"]
    /\ SetPc(r, "stage1")
    /\ UNCHANGED <<db, mcp, response, outVars>>

\* The handler swallowing the exception without recording it.
Except_silent(r) ==
    /\ run[r].pc = "except"
    /\ SetPc(r, "finally")
    /\ UNCHANGED <<pipeline_state, db, mcp, response, outVars>>

\* lines 324-326
Except(r) ==
    /\ run[r].pc = "except"
    /\ pipeline_state' = [pipeline_state EXCEPT !["current_stage"] = "Error"]
    /\ SetPc(r, "finally")
    /\ UNCHANGED <<db, mcp, response, outVars>>

\* lines 331-332
Finally(r) ==
    /\ run[r].pc = "finally"
    /\ pipeline_state' = [pipeline_state EXCEPT !["running"] = FALSE]
    /\ run' = [run EXCEPT ![r].pc = "done", ![r].results = NoResults,
                          ![r].stopped = FALSE, ![r].lead_data = FALSE]
    /\ UNCHANGED <<db, mcp, response, outVars>>

execute_pipeline(r) ==
    \/ Start(r) \/ Stage1(r) \/ Intake(r) \/ IntakeDone(r)
    \/ Stage2(r) \/ Enrich(r) \/ SetEnriched(r) \/ Progress50(r)
    \/ Stage3(r) \/ Generate(r) \/ SetMessaged(r) \/ Progress75(r)
    \/ Stage4(r) \/ Send(r) \/ SetFinal(r) \/ Complete(r)
    \/ Raise(r) \/ Except(r) \/ Finally(r)

\* ------------------------------------------------------------- MCP tools
\* The "limit" argument of a stage tool: absent (None), or a number.
NoLimit == [given |-> FALSE, n |-> 0]
Limits == {NoLimit} \cup {[given |-> TRUE, n |-> k] : k \in -1..MaxLeads}

\* Python's seq[:n]
PySlice(seq, n) ==
    IF n >= 0 THEN SubSeq(seq, 1, IF n < Len(seq) THEN n ELSE Len(seq))
    ELSE SubSeq(seq, 1, IF Len(seq) + n > 0 THEN Len(seq) + n ELSE 0)

\* leads = db.get_leads_by_status(S); if limit: leads = leads[:limit]
Selected(status, limit) ==
    IF ~limit.given \/ limit.n = 0 THEN get_leads_by_status(db, status)
    ELSE PySlice(get_leads_by_status(db, status), limit.n)

ToolStatus == [enrich_leads |-> "NEW", generate_messages |-> "ENRICHED",
               send_outreach |-> "MESSAGED"]

\* call_tool("generate_leads"): count generated leads are inserted.
generate_leads ==
    /\ mcp.tool = "idle"
    /\ \E count \in 1..MaxLeads : \E leads \in [1..count -> LeadData] :
         /\ db.seq + count <= MaxLeads
         /\ db' = insert_leads(db, leads)
    /\ UNCHANGED <<pipeline_state, run, mcp, response, outVars>>

\* call_tool for enrich_leads, generate_messages, send_outreach: the leads in
\* the tool's input status are read once; with none the call returns at once.
ToolCall(tool) ==
    /\ mcp.tool = "idle"
    /\ \E limit \in Limits :
         LET leads == Selected(ToolStatus[tool], limit) IN
         mcp' = IF leads = <<>> THEN mcp
                ELSE [tool |-> tool, leads |-> leads, phase |-> "record",
                      results |-> NoResults]
    /\ UNCHANGED <<pipeline_state, run, db, response, outVars>>

\* The first half of one loop iteration: the stage's output for the lead.
\*   enrich_leads       lines 183-184  enrich_lead, insert_enrichment
\*   generate_messages  lines 217-226  generate_all_messages, insert_message
\*   send_outreach      lines 266-279  outreach.send_outreach
ToolRecord ==
    /\ mcp.tool # "idle"
    /\ mcp.phase = "record"
    /\ \/ /\ mcp.tool = "enrich_leads"
          /\ db' = insert_enrichment(db, Head(mcp.leads))
          /\ mcp' = [mcp EXCEPT !.phase = "status"]
       \/ /\ mcp.tool = "generate_messages"
          /\ db' = insert_message(db, Head(mcp.leads))
          /\ mcp' = [mcp EXCEPT !.phase = "status"]
       \/ /\ mcp.tool = "send_outreach"
          /\ \E channel \in Channels : \E results \in OutreachResults(channel) :
               mcp' = [mcp EXCEPT !.phase = "status", !.results = results]
          /\ UNCHANGED db
    /\ UNCHANGED <<pipeline_state, run, response, outVars>>

\* The status the tool writes for the lead it has just processed.
ToolTarget ==
    IF mcp.tool = "enrich_leads" THEN "ENRICHED"
    ELSE IF mcp.tool = "generate_messages" THEN "MESSAGED"
    ELSE IF all_success(mcp.results) THEN "SENT" ELSE "FAILED"

\* The second half of the iteration: db.update_lead_status (lines 185, 228,
\* 282-289), then the next lead, or the return after the last one.
ToolStatusWrite ==
    /\ mcp.tool # "idle"
    /\ mcp.phase = "status"
    /\ db' = update_lead_status(db, Head(mcp.leads), ToolTarget)
    /\ mcp' = IF Len(mcp.leads) = 1
              THEN [tool |-> "idle", leads |-> <<>>, phase |-> "record",
                    results |-> NoResults]
              ELSE [mcp EXCEPT !.leads = Tail(@), !.phase = "record",
                               !.results = NoResults]
    /\ UNCHANGED <<pipeline_state, run, response, outVars>>

\* An exception in a tool's loop is not caught in call_tool: the call ends
\* and the leads not yet reached are left as they are.
ToolRaise ==
    /\ mcp.tool # "idle"
    /\ mcp' = [tool |-> "idle", leads |-> <<>>, phase |-> "record",
               results |-> NoResults]
    /\ UNCHANGED <<pipeline_state, run, db, response, outVars>>

call_tool ==
    \/ generate_leads
    \/ \E tool \in DOMAIN ToolStatus : ToolCall(tool)
    \/ ToolRecord
    \/ ToolStatusWrite
    \/ ToolRaise

\* ---------------------------------------------------------- specification
InitOutIdle ==
    /\ now = 0
    /\ svc = [dry_run |-> TRUE, last_send_time |-> 0, send_count |-> 0,
              send_window_start |-> 0]
    /\ call = [pc |-> "idle", channel |-> "other", retry_count |-> 0,
               results |-> NoResults, returned |-> FALSE,
               attempts |-> [c \in {"email", "linkedin"} |-> 0],
               outcome |-> "none", smtp |-> 0]
    /\ sends = <<>>
    /\ slept = 0

Init == InitSys /\ InitOutIdle

\* The API process alone: its handlers and its background workers.
Next ==
    \/ run_pipeline(MaxRuns)
    \/ stop_pipeline
    \/ clear_leads
    \/ get_pipeline_status
    \/ \E r \in Runs : execute_pipeline(r)

Spec == Init /\ [][Next]_vars

\* The API process and the MCP server on the same store (both open
\* ./data/leads.db), with FewRuns pipeline runs.
NextShared ==
    \/ run_pipeline(FewRuns)
    \/ stop_pipeline
    \/ clear_leads
    \/ \E r \in 1..FewRuns : execute_pipeline(r)
    \/ call_tool

SpecShared == Init /\ [][NextShared]_vars

\* The API process with FewRuns pipeline runs, each run's thread being
\* scheduled as long as it has a step to take: the pool thread that
\* BackgroundTasks hands execute_pipeline to is not starved, and every call
\* the run makes returns or raises.
NextLive ==
    \/ run_pipeline(FewRuns)
    \/ stop_pipeline
    \/ clear_leads
    \/ get_pipeline_status
    \/ \E r \in 1..FewRuns : execute_pipeline(r)

SpecLive ==
    /\ Init
    /\ [][NextLive]_vars
    /\ \A r \in 1..FewRuns : WF_vars(execute_pipeline(r))

\* ------------------------------------------------------ OutreachService
\* Time is counted in whole seconds; time.sleep(s) takes exactly s.

\* OutreachService.__init__: the window opens at construction and
\* last_send_time is 0 (the epoch, long before construction).
OutreachService(dry_run, t) ==
    [dry_run |-> dry_run, last_send_time |-> 0, send_count |-> 0,
     send_window_start |-> t]

\* _apply_rate_limit with the cap tested by > in place of >=.
_apply_rate_limit_late_cap(s, t) ==
    LET current_time == t
        s1 == IF current_time - s.send_window_start >= Window
              THEN [s EXCEPT !.send_count = 0, !.send_window_start = current_time]
              ELSE s
        sleep_time == Window - (current_time - s1.send_window_start)
        wait == s1.send_count > rate_limit /\ sleep_time > 0
        t2 == IF wait THEN t + sleep_time ELSE t
        s2 == IF wait
              THEN [s1 EXCEPT !.send_count = 0, !.send_window_start = t2]
              ELSE s1
        time_since_last == current_time - s2.last_send_time
        t3 == IF time_since_last < MinSpacing
              THEN t2 + (MinSpacing - time_since_last)
              ELSE t2
    IN  [svc |-> [s2 EXCEPT !.last_send_time = t3, !.send_count = s2.send_count + 1],
         now |-> t3]

\* _apply_rate_limit without the delay between sends.
_apply_rate_limit_no_spacing(s, t) ==
    LET current_time == t
        s1 == IF current_time - s.send_window_start >= Window
              THEN [s EXCEPT !.send_count = 0, !.send_window_start = current_time]
              ELSE s
        sleep_time == Window - (current_time - s1.send_window_start)
        wait == s1.send_count >= rate_limit /\ sleep_time > 0
        t2 == IF wait THEN t + sleep_time ELSE t
        s2 == IF wait
              THEN [s1 EXCEPT !.send_count = 0, !.send_window_start = t2]
              ELSE s1
    IN  [svc |-> [s2 EXCEPT !.last_send_time = t2, !.send_count = s2.send_count + 1],
         now |-> t2]

\* _apply_rate_limit sleeping at the cap without starting a new count.
_apply_rate_limit_keeps_count(s, t) ==
    LET current_time == t
        s1 == IF current_time - s.send_window_start >= Window
              THEN [s EXCEPT !.send_count = 0, !.send_window_start = current_time]
              ELSE s
        sleep_time == Window - (current_time - s1.send_window_start)
        wait == s1.send_count >= rate_limit /\ sleep_time > 0
        t2 == IF wait THEN t + sleep_time ELSE t
        s2 == IF wait THEN [s1 EXCEPT !.send_window_start = t2] ELSE s1
        time_since_last == current_time - s2.last_send_time
        t3 == IF time_since_last < MinSpacing
              THEN t2 + (MinSpacing - time_since_last)
              ELSE t2
    IN  [svc |-> [s2 EXCEPT !.last_send_time = t3, !.send_count = s2.send_count + 1],
         now |-> t3]

\* OutreachService._apply_rate_limit called at time t on the fields s: the
\* fields and the time at its return.  current_time is read once, on entry,
\* and is the value both checks use.
_apply_rate_limit(s, t) ==
    LET current_time == t
        s1 == IF current_time - s.send_window_start >= Window
              THEN [s EXCEPT !.send_count = 0, !.send_window_start = current_time]
              ELSE s
        sleep_time == Window - (current_time - s1.send_window_start)
        wait == s1.send_count >= rate_limit /\ sleep_time > 0
        t2 == IF wait THEN t + sleep_time ELSE t
        s2 == IF wait
              THEN [s1 EXCEPT !.send_count = 0, !.send_window_start = t2]
              ELSE s1
        time_since_last == current_time - s2.last_send_time
        t3 == IF time_since_last < MinSpacing
              THEN t2 + (MinSpacing - time_since_last)
              ELSE t2
    IN  [svc |-> [s2 EXCEPT !.last_send_time = t3, !.send_count = s2.send_count + 1],
         now |-> t3]

\* The send times kept: the last rate_limit + 1, which is what a window that
\* holds more than rate_limit sends is made of.
Record(log, t) ==
    LET all == Append(log, t) IN
    IF Len(all) > rate_limit + 1 THEN Tail(all) ELSE all

\* 2 ** n
RECURSIVE Pow2(_)
Pow2(n) == IF n = 0 THEN 1 ELSE 2 * Pow2(n - 1)

\* Time that passes outside the limiter's own sleeps: between two calls, or
\* inside an SMTP conversation.
Latencies == {5, 58}

\* No attempt made yet on either channel.
NoAttempts == [c \in {"email", "linkedin"} |-> 0]

IdleCall == [pc |-> "idle", channel |-> "other", retry_count |-> 0,
             results |-> NoResults, returned |-> FALSE,
             attempts |-> NoAttempts, outcome |-> "none", smtp |-> 0]

InitOut ==
    /\ InitSys
    /\ now = 1
    /\ \E dry_run \in BOOLEAN : svc = OutreachService(dry_run, now)
    /\ call = IdleCall
    /\ sends = <<>>
    /\ slept = 0

Elapse ==
    /\ \E d \in Latencies :
         /\ now + d <= MaxTime
         /\ now' = now + d
    /\ UNCHANGED <<svc, call, sends, slept, sysVars>>

\* The channel that follows the email channel in send_outreach, if any.
AfterEmail(c) == IF c.channel = "both" THEN "linkedin" ELSE "idle"

\* send_outreach(lead, messages, channel): lines 206-227, up to the first send.
SendOutreach ==
    /\ call.pc = "idle"
    /\ \E channel \in Channels :
         call' = [pc |-> IF channel \in {"email", "both"} THEN "email"
                         ELSE IF channel = "linkedin" THEN "linkedin"
                         ELSE "idle",
                  channel |-> channel, retry_count |-> 0, results |-> NoResults,
                  returned |-> channel = "other",
                  attempts |-> NoAttempts, outcome |-> "none", smtp |-> 0]
    /\ UNCHANGED <<now, svc, sends, slept, sysVars>>

\* send_outreach returning as soon as the email channel has failed.
Returned_short_circuit(c, chan, status) ==
    LET next == IF chan = "email" /\ status = "success" THEN AfterEmail(c)
                ELSE "idle" IN
    [c EXCEPT !.pc = next, !.retry_count = 0,
              !.results = [x \in DOMAIN c.results \cup {chan} |->
                             IF x = chan THEN status ELSE c.results[x]],
              !.returned = (next = "idle")]

\* The call's state after a channel has produced its result.
Returned(c, chan, status) ==
    LET next == IF chan = "email" THEN AfterEmail(c) ELSE "idle" IN
    [c EXCEPT !.pc = next, !.retry_count = 0,
              !.results = [x \in DOMAIN c.results \cup {chan} |->
                             IF x = chan THEN status ELSE c.results[x]],
              !.returned = (next = "idle")]

\* The call's state after one more attempt on chan has ended with outcome
\* ("ok": delivered or logged, "fail": the attempt raised or drew a failure).
Attempted(c, chan, outcome) ==
    [c EXCEPT !.attempts[chan] = @ + 1, !.outcome = outcome]

\* The call's state after smtplib.SMTP(...) was entered once more.
SmtpOpened(c) == [c EXCEPT !.smtp = @ + 1]

\* send_email opening the SMTP conversation before it looks at dry_run.
Delivery_ignores_dry_run(c) == SmtpOpened(c)

\* send_email lines 91-116: with dry_run the function returns before the try
\* block; otherwise the attempt opens an SMTP conversation.
Delivery(c) == IF svc.dry_run THEN c ELSE SmtpOpened(c)

\* send_email letting the last attempt's exception escape: the call ends
\* without a result for the channel.
SendEmail_raises ==
    /\ call.pc = "email"
    /\ LET lim == _apply_rate_limit(svc, now) IN
       /\ lim.now <= MaxTime
       /\ svc' = lim.svc
       /\ sends' = Record(sends, lim.now)
       /\ slept' = lim.now - now
       /\ \E smtp \in {"ok", "fail"} :
            IF svc.dry_run \/ smtp = "ok"
            THEN /\ call' = Returned(Attempted(Delivery(call), "email", "ok"), "email", "success")
                 /\ now' = lim.now
            ELSE IF call.retry_count < max_retries
            THEN /\ lim.now + Pow2(call.retry_count) <= MaxTime
                 /\ now' = lim.now + Pow2(call.retry_count)
                 /\ call' = [Attempted(Delivery(call), "email", "fail") EXCEPT !.retry_count = @ + 1]
            ELSE /\ call' = [Attempted(Delivery(call), "email", "fail") EXCEPT
                                 !.pc = "idle", !.retry_count = 0]
                 /\ now' = lim.now
    /\ UNCHANGED sysVars

\* One attempt of send_email (lines 89-141) with retry_count = call.retry_count.
SendEmail ==
    /\ call.pc = "email"
    /\ LET lim == _apply_rate_limit(svc, now) IN
       /\ lim.now <= MaxTime
       /\ svc' = lim.svc
       /\ sends' = Record(sends, lim.now)
       /\ slept' = lim.now - now
       /\ \E smtp \in {"ok", "fail"} :
            IF svc.dry_run \/ smtp = "ok"
            THEN /\ call' = Returned(Attempted(Delivery(call), "email", "ok"), "email", "success")
                 /\ now' = lim.now
            ELSE IF call.retry_count < max_retries
            THEN /\ lim.now + Pow2(call.retry_count) <= MaxTime
                 /\ now' = lim.now + Pow2(call.retry_count)
                 /\ call' = [Attempted(Delivery(call), "email", "fail") EXCEPT !.retry_count = @ + 1]
            ELSE /\ call' = Returned(Attempted(Delivery(call), "email", "fail"), "email", "failed")
                 /\ now' = lim.now
    /\ UNCHANGED sysVars

\* send_linkedin_dm calling the limiter on the first attempt only: a retry
\* is made at once, uncounted.
SendLinkedin_retry_unlimited ==
    /\ call.pc = "linkedin"
    /\ LET lim == IF call.retry_count = 0 THEN _apply_rate_limit(svc, now)
                  ELSE [svc |-> svc, now |-> now] IN
       /\ lim.now <= MaxTime
       /\ svc' = lim.svc
       /\ sends' = Record(sends, lim.now)
       /\ slept' = lim.now - now
       /\ \E rnd \in {"ok", "fail"} :
            IF rnd = "ok"
            THEN /\ call' = Returned(Attempted(call, "linkedin", "ok"), "linkedin", "success")
                 /\ now' = lim.now
            ELSE IF call.retry_count < max_retries
            THEN /\ lim.now + 1 <= MaxTime
                 /\ now' = lim.now + 1
                 /\ call' = [Attempted(call, "linkedin", "fail") EXCEPT !.retry_count = @ + 1]
            ELSE /\ call' = Returned(Attempted(call, "linkedin", "fail"), "linkedin", "failed")
                 /\ now' = lim.now
    /\ UNCHANGED sysVars

\* send_linkedin_dm retrying while retry_count <= max_retries.
SendLinkedin_retry_once_more ==
    /\ call.pc = "linkedin"
    /\ LET lim == _apply_rate_limit(svc, now) IN
       /\ lim.now <= MaxTime
       /\ svc' = lim.svc
       /\ sends' = Record(sends, lim.now)
       /\ slept' = lim.now - now
       /\ \E rnd \in {"ok", "fail"} :
            IF rnd = "ok"
            THEN /\ call' = Returned(Attempted(call, "linkedin", "ok"), "linkedin", "success")
                 /\ now' = lim.now
            ELSE IF call.retry_count <= max_retries
            THEN /\ lim.now + 1 <= MaxTime
                 /\ now' = lim.now + 1
                 /\ call' = [Attempted(call, "linkedin", "fail") EXCEPT !.retry_count = @ + 1]
            ELSE /\ call' = Returned(Attempted(call, "linkedin", "fail"), "linkedin", "failed")
                 /\ now' = lim.now
    /\ UNCHANGED sysVars

\* One attempt of send_linkedin_dm (lines 165-192); the retry sleeps 1 second.
SendLinkedin ==
    /\ call.pc = "linkedin"
    /\ LET lim == _apply_rate_limit(svc, now) IN
       /\ lim.now <= MaxTime
       /\ svc' = lim.svc
       /\ sends' = Record(sends, lim.now)
       /\ slept' = lim.now - now
       /\ \E rnd \in {"ok", "fail"} :
            IF rnd = "ok"
            THEN /\ call' = Returned(Attempted(call, "linkedin", "ok"), "linkedin", "success")
                 /\ now' = lim.now
            ELSE IF call.retry_count < max_retries
            THEN /\ lim.now + 1 <= MaxTime
                 /\ now' = lim.now + 1
                 /\ call' = [Attempted(call, "linkedin", "fail") EXCEPT !.retry_count = @ + 1]
            ELSE /\ call' = Returned(Attempted(call, "linkedin", "fail"), "linkedin", "failed")
                 /\ now' = lim.now
    /\ UNCHANGED sysVars

NextOut ==
    \/ Elapse
    \/ SendOutreach
    \/ SendEmail
    \/ SendLinkedin

SpecOut == InitOut /\ [][NextOut]_vars

\* The next pipeline run or send_outreach tool call: each constructs its own
\* OutreachService (api.py line 289, server.py line 260), whose window and
\* last_send_time start afresh.  sends goes on recording every send.
NewService ==
    /\ call.pc = "idle"
    /\ \E dry_run \in BOOLEAN : svc' = OutreachService(dry_run, now)
    /\ call' = IdleCall
    /\ UNCHANGED <<now, sends, slept, sysVars>>

\* All the dispatch activity of the system, one run or tool call after the
\* other.
NextFleet ==
    \/ NextOut
    \/ NewService

SpecFleet == InitOut /\ [][NextFleet]_vars

\* ================================================================ claims

\* The transition graph of a lead's status.
Forward == {<<"NEW", "ENRICHED">>, <<"ENRICHED", "MESSAGED">>,
            <<"MESSAGED", "SENT">>, <<"MESSAGED", "FAILED">>}

C2_OneExecution == Cardinality({r \in Runs : Executing(r)}) <= 1

\* C3: a POST /pipeline/run handled while running is true is answered 409,
\* queues no task and leaves running, current_stage and progress unchanged.
C3_ConflictRejected ==
    [][(pipeline_state["running"] /\ run_pipeline(MaxRuns))
          => (response' = 409 /\ run' = run /\ pipeline_state' = pipeline_state)]_vars

\* C3 witness: a request has been rejected while a run was executing.
C3_Witness ==
    /\ response = 409
    /\ pipeline_state["running"]
    /\ \E r \in Runs : Executing(r)

C5_ProgressMonotonic ==
    [][(\E r \in Runs : Executing(r))
          => pipeline_state'["progress"] >= pipeline_state["progress"]]_vars

\* The program points right before a stage is entered.
StageBoundaries == {"stage1", "stage2", "stage3", "stage4"}

\* C6: after POST /pipeline/stop has been handled during a run, that run
\* enters no further stage: at a stage boundary it goes no further.
C6_StopObserved ==
    [][\A r \in Runs :
         (run[r].stopped /\ run[r].pc \in StageBoundaries)
            => run'[r].pc \in {run[r].pc, "finally", "done"}]_vars

\* C7: with dry_run = true send_outreach returns success for every channel
\* it was asked for.
C7_DryRunSucceeds ==
    (svc.dry_run /\ call.returned)
        => \A c \in DOMAIN call.results : call.results[c] = "success"

\* C8: no interval of Window seconds holds more than rate_limit sends.
C8_RollingWindow ==
    \A i \in 1..Len(sends) :
        i + rate_limit <= Len(sends) => sends[i + rate_limit] - sends[i] >= Window

\* A step that performs one send attempt.
Attempt == SendEmail \/ SendLinkedin

\* C9: a send requested when rate_limit sends are counted in the window is
\* not dropped: the call sleeps until Window seconds after the window start,
\* then the send is performed and is counted as the first send of a new
\* window; a send requested below the cap waits for the spacing alone, so the
\* (rate_limit + 1)th send of a window is the one that blocks.
C9_BlocksUntilRollover ==
    [][Attempt =>
         /\ sends' # sends
         /\ sends'[Len(sends')] = svc'.last_send_time
         /\ svc.send_count >= rate_limit =>
               /\ svc'.last_send_time >= svc.send_window_start + Window
               /\ svc'.send_window_start >= svc.send_window_start + Window
               /\ svc'.send_window_start <= svc'.last_send_time
               /\ svc'.send_count = 1
               /\ slept' >= svc.send_window_start + Window - now
         /\ svc.send_count < rate_limit => slept' <= MinSpacing]_vars

\* C9 witness: the send after rate_limit sends in an open window has slept to
\* the end of the window and is the window's successor's first send.
C9_Witness ==
    /\ Len(sends) = rate_limit + 1
    /\ slept > MinSpacing
    /\ svc.send_count = 1
    /\ sends[rate_limit + 1] = svc.last_send_time
    /\ sends[rate_limit + 1] - sends[1] < Window + MinSpacing
    /\ svc.send_window_start - slept < sends[rate_limit] + Window

\* C10: any two consecutive sends are at least MinSpacing apart.
C10_Spacing ==
    \A i \in 1..Len(sends) :
        i < Len(sends) => sends[i + 1] - sends[i] >= MinSpacing

\* C10 witness: three sends in a row, each exactly MinSpacing after the
\* one before, in a call on both channels.
C10_Witness ==
    /\ Len(sends) >= 3
    /\ sends[Len(sends)] - sends[Len(sends) - 1] = MinSpacing
    /\ sends[Len(sends) - 1] - sends[Len(sends) - 2] = MinSpacing
    /\ DOMAIN call.results = {"email", "linkedin"}

\* C11: with max_retries = m, attempt n of a channel send is made only after
\* n - 1 failed attempts and n <= m + 1; when attempt n succeeds the channel's
\* result is success after exactly n attempts; when it fails and n <= m the
\* send is attempted again; when attempt m + 1 fails the result is failed
\* after exactly m + 1 attempts.
C11_RetryCount ==
    [][Attempt =>
         LET chan == call.pc
             n == call'.attempts[chan]
             ended == /\ call'.pc # chan
                      /\ chan \in DOMAIN call'.results
                      /\ call'.attempts[chan] = n
         IN  /\ n = call.attempts[chan] + 1
             /\ n <= max_retries + 1
             /\ n > 1 => call.outcome = "fail"
             /\ call'.outcome = "ok" =>
                   ended /\ call'.results[chan] = "success"
             /\ (call'.outcome = "fail" /\ n <= max_retries) =>
                   call'.pc = chan /\ call'.results = call.results
             /\ (call'.outcome = "fail" /\ n = max_retries + 1) =>
                   ended /\ call'.results[chan] = "failed"]_vars

\* C11 witness: a live email send that failed max_retries times and succeeded
\* on attempt max_retries + 1.
C11_Witness ==
    /\ ~svc.dry_run
    /\ call.returned
    /\ call.channel = "email"
    /\ call.attempts["email"] = max_retries + 1
    /\ call.results["email"] = "success"

\* C12: after the failed attempt number a (from 0) of a channel send the
\* call waits 2^a seconds before it makes the next attempt, on the email
\* channel and on the LinkedIn channel.
C12_Backoff ==
    [][(Attempt /\ call'.pc = call.pc)
          => now' - svc'.last_send_time = Pow2(call.retry_count)]_vars

\* The channels a channel argument asks for.
Requested(channel) ==
    (IF channel \in {"email", "both"} THEN {"email"} ELSE {})
        \cup (IF channel \in {"linkedin", "both"} THEN {"linkedin"} ELSE {})

\* The channel a call sends on last.
LastChannel(channel) ==
    IF channel \in {"linkedin", "both"} THEN "linkedin" ELSE "email"

\* C13: send_outreach does not raise: a call that was started is sending on
\* one of its channels or has returned, and it returns one result, success
\* or failed, for every channel asked for; the channel whose latest attempt
\* failed is in the results as failed.
C13_FailuresAreData ==
    /\ call.pc \in {"idle", "email", "linkedin"}
    /\ (call.pc = "idle" /\ call # IdleCall) =>
          /\ call.returned
          /\ DOMAIN call.results = Requested(call.channel)
          /\ \A c \in DOMAIN call.results :
                /\ call.results[c] \in {"success", "failed"}
                /\ call.attempts[c] >= 1
          /\ Requested(call.channel) # {} =>
                call.results[LastChannel(call.channel)] =
                    IF call.outcome = "fail" THEN "failed" ELSE "success"
    /\ (call.pc = "linkedin" /\ call.channel = "both") =>
          "email" \in DOMAIN call.results

\* C13 witness: on both channels the email send failed on every attempt, the
\* call went on to LinkedIn and returned both results.
C13_Witness ==
    /\ call.returned
    /\ call.channel = "both"
    /\ call.results["email"] = "failed"
    /\ call.attempts["email"] = max_retries + 1
    /\ "linkedin" \in DOMAIN call.results

\* The status the aggregation rule gives a lead for the results of its
\* requested channels.
Aggregate(results) ==
    IF \E c \in DOMAIN results : results[c] = "failed" THEN "FAILED" ELSE "SENT"

\* C14: the status written after dispatch, by a pipeline run and by the
\* send_outreach tool, is SENT exactly when every requested channel's result
\* is success and FAILED when at least one is failed.
C14_Aggregation ==
    [][/\ \A r \in Runs :
            (SetFinal(r) /\ db.leads[run[r].lead] # "NONE")
               => db'.leads[run[r].lead] = Aggregate(run[r].results)
       /\ (ToolStatusWrite /\ mcp.tool = "send_outreach"
              /\ db.leads[Head(mcp.leads)] # "NONE")
               => db'.leads[Head(mcp.leads)] = Aggregate(mcp.results)]_vars

\* C14 witness: a run has dispatched its MESSAGED lead on both channels,
\* email succeeded, LinkedIn failed, and the status is about to be written.
C14_Witness ==
    \E r \in Runs :
        /\ run[r].pc = "set_final"
        /\ db.leads[run[r].lead] = "MESSAGED"
        /\ run[r].results = [c \in {"email", "linkedin"} |->
                                IF c = "email" THEN "success" ELSE "failed"]

\* C15: a failure in the enrichment of a NEW lead or in the message
\* generation for an ENRICHED lead leaves the stored statuses as they are,
\* and neither the handling of the exception in the run nor the end of the
\* tool call writes a status.
C15_FailureKeepsStatus ==
    [][/\ \A r \in Runs :
            (Raise(r) \/ Except(r) \/ Finally(r)) => db'.leads = db.leads
       /\ ToolRaise => db'.leads = db.leads]_vars

\* C15 witness: a run failed while enriching its lead (stage 2 was entered,
\* no enrichment is stored) and the lead is still NEW.
C15_Witness ==
    \E r \in Runs :
        /\ run[r].pc = "except"
        /\ pipeline_state["current_stage"] = "Enriching lead"
        /\ db.leads[run[r].lead] = "NEW"
        /\ run[r].lead \notin db.enrichment

\* C16: when the stage processor of enrich_leads or generate_messages fails
\* for one lead of a batch, the tool goes on with the remaining leads.
C16_BatchContinues ==
    [][(ToolRaise /\ mcp.phase = "record"
          /\ mcp.tool \in {"enrich_leads", "generate_messages"}
          /\ Len(mcp.leads) > 1)
         => (mcp'.tool = mcp.tool /\ mcp'.leads = Tail(mcp.leads))]_vars

C18_RunHalts ==
    [][\A r \in Runs :
         /\ (run[r].pc = "except" /\ run'[r].pc # "except") =>
               /\ run'[r].pc = "finally"
               /\ pipeline_state'["current_stage"] = "Error"
               /\ db' = db
         /\ (run[r].pc = "finally" /\ run'[r].pc # "finally") =>
               /\ run'[r].pc = "done"
               /\ ~pipeline_state'["running"]
               /\ db' = db
         /\ run[r].pc = "done" => run'[r].pc = "done"]_vars

\* C18 witness: a run has ended after an exception, with the error recorded
\* and running false.
C18_Witness ==
    \E r \in Runs :
        /\ run[r].pc = "done"
        /\ pipeline_state["current_stage"] = "Error"
        /\ ~pipeline_state["running"]

C20_RunFinishes ==
    /\ \A r \in Runs : (run[r].pc = "queued") ~> (run[r].pc = "done")
    /\ [][\A r \in Runs :
            (run[r].pc # "done" /\ run'[r].pc = "done")
               => ~pipeline_state'["running"]]_vars

\* C20 witness: a run has ended by the early return for missing or invalid
\* lead data, with running false.
C20_Witness ==
    \E r \in Runs :
        /\ run[r].pc = "done"
        /\ ~pipeline_state["running"]
        /\ pipeline_state["current_stage"] = "Processing leads"
        /\ pipeline_state["progress"] = 10

\* C21: POST /pipeline/stop is always answered without an error and leaves
\* running false and current_stage cleared; handled when no run is executing
\* and the state is the one a stop leaves (running false, current_stage
\* cleared), as a second stop in a row is, it changes nothing.
C21_StopIdempotent ==
    [][stop_pipeline =>
         /\ response' = 200
         /\ ~pipeline_state'["running"]
         /\ pipeline_state'["current_stage"] = "None"
         /\ pipeline_state'["progress"] = pipeline_state["progress"]
         /\ db' = db
         /\ ((\A r \in Runs : ~Executing(r))
               /\ ~pipeline_state["running"]
               /\ pipeline_state["current_stage"] = "None")
              => (pipeline_state' = pipeline_state /\ run' = run)]_vars

\* C21 witness: stop was handled after a run had completed all its stages,
\* and no run is executing.
C21_Witness ==
    /\ response = 200
    /\ \A r \in Runs : ~Executing(r)
    /\ \E r \in Runs : run[r].pc = "done"
    /\ ~pipeline_state["running"]
    /\ pipeline_state["current_stage"] = "None"
    /\ pipeline_state["progress"] = 100

\* C22: with dry_run = true no attempt opens an SMTP conversation, whatever
\* the channel and however many attempts are made.
C22_DryRunNoSmtp == svc.dry_run => call.smtp = 0

\* C22 witness: a dry run on both channels has returned after an email
\* attempt and a retried LinkedIn send, with no SMTP conversation opened.
C22_Witness ==
    /\ svc.dry_run
    /\ call.returned
    /\ call.channel = "both"
    /\ call.attempts["email"] = 1
    /\ call.attempts["linkedin"] >= 2
    /\ call.smtp = 0

\* C23: every attempt, first or retry, dry-run or live, on either channel,
\* goes through the limiter once: it adds one to the window's count (or is
\* the first of a window that starts Window seconds or more after the old
\* one), the count never exceeds rate_limit, and the attempt is timed no
\* earlier than the call and MinSpacing after the send before it.
C23_LimiterOnce ==
    [][Attempt =>
         /\ svc'.send_count \in {svc.send_count + 1, 1}
         /\ svc'.send_count <= rate_limit
         /\ (svc'.send_count = 1 /\ svc.send_count >= 1) =>
               svc'.send_window_start >= svc.send_window_start + Window
         /\ svc'.last_send_time >= now
         /\ svc'.last_send_time >= svc.last_send_time + MinSpacing
         /\ sends' = Record(sends, svc'.last_send_time)]_vars

\* C23 witness: in a dry run on both channels the retry of the LinkedIn
\* send was the third send of the window, waited for the rollover and is
\* counted as the first send of the new window.
C23_Witness ==
    /\ svc.dry_run
    /\ call.channel = "both"
    /\ call.attempts["email"] = 1
    /\ call.attempts["linkedin"] = 2
    /\ Len(sends) = 3
    /\ svc.send_count = 1
    /\ slept > MinSpacing

\* C24: the cap holds for the sends of all service instances together: the
\* Window seconds that the limiter in use is counting hold at most rate_limit
\* sends, whichever instance made them.
C24_GlobalCap ==
    Cardinality({i \in 1..Len(sends) :
                    /\ sends[i] >= svc.send_window_start
                    /\ sends[i] < svc.send_window_start + Window}) <= rate_limit

\* C25: the channels of a call are independent.  A returned call holds
\* exactly one result per requested channel, each after at least one attempt
\* on that channel (so with both, LinkedIn is attempted whatever the email
\* result is); an attempt on a channel changes neither the result nor the
\* attempt count of the other channel, and the result it produces is success
\* when the attempt succeeded and failed when it did not.
C25_ChannelsIndependent ==
    /\ [](call.returned =>
            /\ DOMAIN call.results = Requested(call.channel)
            /\ \A c \in {"email", "linkedin"} :
                  (c \in Requested(call.channel)) <=> (call.attempts[c] >= 1))
    /\ [][Attempt =>
            LET chan == call.pc
                other == IF chan = "email" THEN "linkedin" ELSE "email"
            IN  /\ call'.attempts[other] = call.attempts[other]
                /\ DOMAIN call'.results \subseteq DOMAIN call.results \cup {chan}
                /\ other \in DOMAIN call.results =>
                      /\ other \in DOMAIN call'.results
                      /\ call'.results[other] = call.results[other]
                /\ chan \in DOMAIN call'.results =>
                      call'.results[chan] =
                          IF call'.outcome = "ok" THEN "success" ELSE "failed"]_vars

\* C25 witness: on both channels the email send failed on every attempt and
\* the LinkedIn send, attempted all the same, succeeded.
C25_Witness ==
    /\ call.returned
    /\ call.channel = "both"
    /\ call.results["email"] = "failed"
    /\ call.results["linkedin"] = "success"
    /\ call.attempts["linkedin"] = 1

\* C26: a run started without lead data does not return at intake: it goes
\* on to process a batch of leads through the stages.
C26_BulkRunProcesses ==
    [][\A r \in Runs :
          (run[r].pc = "intake" /\ ~run[r].lead_data) => run'[r].pc # "finally"]_vars

\* C27: progress is within 0..100 in every state, and the step that
\* completes stage k of a run (intake, enrichment, message generation,
\* outreach) leaves progress at 25 * k.
C27_ProgressPerStage ==
    /\ [](pipeline_state["progress"] \in 0..100)
    /\ [][\A r \in Runs :
            /\ (run[r].pc = "intake_done" /\ run'[r].pc = "stage2") =>
                  pipeline_state'["progress"] = 25 * 1
            /\ (run[r].pc = "p50" /\ run'[r].pc = "stage3") =>
                  pipeline_state'["progress"] = 25 * 2
            /\ (run[r].pc = "p75" /\ run'[r].pc = "stage4") =>
                  pipeline_state'["progress"] = 25 * 3
            /\ (run[r].pc = "complete" /\ run'[r].pc = "finally") =>
                  pipeline_state'["progress"] = 25 * 4]_vars

\* C27 witness: a run has completed its fourth stage and progress is 100.
C27_Witness ==
    \E r \in Runs :
        /\ run[r].pc = "finally"
        /\ run[r].lead # 0
        /\ db.leads[run[r].lead] \in {"SENT", "FAILED"}
        /\ pipeline_state["current_stage"] = "Complete"
        /\ pipeline_state["progress"] = 100

\* C28: a row that appears in the leads table appears with status NEW.
C28_InsertedIsNew ==
    [][\A i \in Leads :
          (db.leads[i] = "NONE" /\ db'.leads[i] # "NONE") => db'.leads[i] = "NEW"]_vars

\* C28 witness: both intakes have inserted: a run has inserted its lead, the
\* generate_leads tool another one, and both rows are NEW.
C28_Witness ==
    /\ \E r \in Runs : /\ run[r].pc = "intake_done"
                        /\ db.leads[run[r].lead] = "NEW"
    /\ db.seq = 2
    /\ \A i \in 1..2 : db.leads[i] = "NEW"

\* C29: a stage tool called with a numeric limit (no negative count of
\* leads is asked for) selects at most that many leads to process.
C29_LimitBounds ==
    \A tool \in DOMAIN ToolStatus : \A limit \in Limits :
        (limit.given /\ limit.n >= 0) =>
            Len(Selected(ToolStatus[tool], limit)) <= limit.n

Dispatched(i) ==
    \/ db.leads[i] \in {"SENT", "FAILED"}
    \/ \E r \in Runs : run[r].pc = "set_final" /\ run[r].lead = i
    \/ mcp.tool = "send_outreach" /\ mcp.phase = "status" /\ Head(mcp.leads) = i

\* A step in which a run or the send_outreach tool dispatches to lead i.
DispatchStep(i) ==
    \/ \E r \in Runs : /\ run[r].lead = i
                        /\ run[r].pc = "send"
                        /\ run'[r].pc = "set_final"
    \/ /\ mcp.tool = "send_outreach"
       /\ mcp.phase = "record"
       /\ mcp'.phase = "status"
       /\ Head(mcp.leads) = i

C32_ValidRunCompletes ==
    [][\A r \in Runs :
          /\ (run[r].pc = "intake" /\ run[r].lead_data) => run'[r].pc # "except"
          /\ (run[r].pc = "complete" /\ run'[r].pc = "finally") =>
                /\ db'.leads[run[r].lead] \in {"SENT", "FAILED"}
                /\ pipeline_state'["progress"] = 100
                /\ pipeline_state'["current_stage"] = "Complete"
          /\ (run[r].pc = "finally" /\ run'[r].pc = "done") =>
                ~pipeline_state'["running"]]_vars

\* C33: a run that ends leaves current_stage at "Complete" or at an error
\* message.
C33_EndedRunSaysWhy ==
    [][\A r \in Runs :
          (run[r].pc = "finally" /\ run'[r].pc = "done") =>
              pipeline_state'["current_stage"] \in {"Complete", "Error"}]_vars

\* C34: a step of a run changes the status of no lead but the run's own.
C34_RunTouchesOwnLead ==
    [][\A r \in Runs :
          execute_pipeline(r) =>
              \A i \in Leads : db'.leads[i] # db.leads[i] => i = run'[r].lead]_vars

\* C34 witness: a run has taken its own lead to SENT while a lead that was
\* in the store before the run started is still NEW.
C34_Witness ==
    \E r \in Runs :
        /\ run[r].pc = "complete"
        /\ run[r].lead = 2
        /\ db.leads[2] = "SENT"
        /\ db.leads[1] = "NEW"

C36_RecordsBeforeStatus ==
    \A i \in Leads :
        /\ db.leads[i] \in {"ENRICHED", "MESSAGED", "SENT", "FAILED"} =>
              i \in db.enrichment
        /\ db.leads[i] \in {"MESSAGED", "SENT", "FAILED"} => i \in db.messages

\* C36 witness: one lead is ENRICHED with its enrichment stored and no
\* message yet, the other is FAILED with both records.
C36_Witness ==
    /\ db.leads[1] = "FAILED"
    /\ db.leads[2] = "ENRICHED"
    /\ db.enrichment = {1, 2}
    /\ db.messages = {1}

\* C37: the count of a service instance stays within 0..rate_limit, and its
\* window start and last send time never move backwards.
C37_LimiterFields ==
    /\ [](svc.send_count \in 0..rate_limit)
    /\ [][/\ svc'.send_window_start >= svc.send_window_start
          /\ svc'.last_send_time >= svc.last_send_time]_vars

\* C37 witness: the count is back at the cap in a window that was started
\* after the first one, which had reached the cap as well.
C37_Witness ==
    /\ svc.send_count = rate_limit
    /\ svc.send_window_start >= Window
    /\ svc.last_send_time > svc.send_window_start
    /\ Len(sends) = rate_limit + 1
    /\ sends[1] < Window

====
